---- MODULE Spec2Model ----
(***************************************************************************)
(* pentaho/visual/AbstractModel: the changeset of a visual model, the      *)
(* cascade of the data-or-mapping-changed notification to the visual role  *)
(* mappings, and the derived key and measure field lists.                  *)
(***************************************************************************)
EXTENDS Naturals, Sequences, FiniteSets

VARIABLES
  modelType,      \* this.$type: the type descriptor of the model
  values,         \* the committed property values of the model
  staged,         \* the changeset of the open transaction: <<[prop, value, rejected]>>
  propertyNames,  \* changeset.propertyNames of the changeset last applied
  log,            \* what the last commit did, in order
  pc,             \* "idle" | "open" | "applied" | "finished" | "raised"
  toSpec,         \* a caller's keyArgs and what toSpecInContext passed to this.base
  each,           \* a caller's function f and the calls eachVisualRole made of it
  counts,         \* the commits made on the model and the hook calls each role got
  reads,          \* the reads of the field lists since the last commit
  dataProp        \* the value last given for data and the value the model stores

\* The model and its open transaction.
model == <<modelType, values, staged, propertyNames, log, pc>>

\* What callers of the other methods hold.
aux == <<toSpec, each, counts, reads, dataProp>>

vars == <<model, aux>>

----------------------------------------------------------------------------
(* Bounds *)

\* Longest field list of a mapping.
MaxFields == 2

\* Most properties staged in one changeset.
MaxStaged == 2

\* Most calls of toSpecInContext with one keyArgs.
MaxCalls == 2

\* Most commits made on one model.
MaxCommits == 2

\* Most reads of the field lists between two commits.
MaxReads == 3

\* Most rows of a data table.
MaxRows == 2

\* Names of the fields of the data table.
FieldNames == {"a", "b"}

\* The sequences over S of length n at most.
SeqsUpTo(S, n) == UNION {[1..k -> S] : k \in 0..n}

----------------------------------------------------------------------------
(* The type descriptors *)

Null == "null"

dataKey == "dataKey"
dataOrdinal == "dataOrdinal"
undefined == "undefined"

PlainProp(n) == [name |-> n, kind |-> "plain", isVisualKey |-> FALSE]
RoleProp(n, isKey) == [name |-> n, kind |-> "role", isVisualKey |-> isKey]
PaletteProp(n) == [name |-> n, kind |-> "palette", isVisualKey |-> FALSE]

\* $type.props of AbstractModel, in declaration order.
BaseProps == <<PlainProp("application"), PlainProp("data"), PlainProp("selectionFilter")>>

\* The visual roles a chart subtype declares after the inherited properties:
\* a non-key role declared before two key roles.
ChartRoles == <<RoleProp("measures", FALSE), RoleProp("rows", TRUE), RoleProp("columns", TRUE)>>

AbstractModelType == [id |-> "AbstractModel", props |-> BaseProps, visualKeyType |-> undefined]

ChartType(vkt) == [id |-> "LineStacked", props |-> BaseProps \o ChartRoles, visualKeyType |-> vkt]

PropNames(T) == {T.props[i].name : i \in 1..Len(T.props)}

\* modelType.get(propName)
Get(T, propName) == T.props[CHOOSE i \in 1..Len(T.props) : T.props[i].name = propName]

\* propType.isSubtypeOf(RoleAbstractProperty.type)
IsVisualRole(propType) == propType.kind = "role"

RoleNames(T) == {T.props[i].name : i \in {k \in 1..Len(T.props) : IsVisualRole(T.props[k])}}

RECURSIVE EachFrom(_, _, _, _)
\* The body of the this.each loop of eachVisualRole from the i-th declared
\* property on, j visual roles having been visited: the calls f(propType, j)
\* made, the last one being the call f answers with false, if there is one.
EachFrom(T, stops, i, j) ==
  IF i > Len(T.props) THEN <<>>
  ELSE LET propType == T.props[i] IN
       IF IsVisualRole(propType)
       THEN <<[propType |-> propType, index |-> j]>> \o
            (IF propType.name \in stops THEN <<>> ELSE EachFrom(T, stops, i + 1, j + 1))
       ELSE EachFrom(T, stops, i + 1, j)

RECURSIVE EachFromCountingAll(_, _, _, _)
\* The this.each loop of eachVisualRole with j++ outside the isVisualRole test.
EachFromCountingAll(T, stops, i, j) ==
  IF i > Len(T.props) THEN <<>>
  ELSE LET propType == T.props[i] IN
       IF IsVisualRole(propType)
       THEN <<[propType |-> propType, index |-> j]>> \o
            (IF propType.name \in stops THEN <<>> ELSE EachFromCountingAll(T, stops, i + 1, j + 1))
       ELSE EachFromCountingAll(T, stops, i + 1, j + 1)

\* eachVisualRole passing the index of the property among all the properties.
EachVisualRoleCountingAll(T, stops) == EachFromCountingAll(T, stops, 1, 0)

\* eachVisualRole taking every answer of f that is not true for false: it
\* ends after the first call.
EachVisualRoleStopsAtFirst(T, stops) == EachFrom(T, RoleNames(T), 1, 0)

\* eachVisualRole(f, x): the calls of f, f ending the iteration on the roles in stops.
EachVisualRole(T, stops) == EachFrom(T, stops, 1, 0)

----------------------------------------------------------------------------
(* The changeset *)

\* A log entry: what was done, the property it is about, the mapping it is called on.
\*   "write"                    the base commit wrote the property
\*   "rejected"                 the base commit raised on the property
\*   "relevant" | "irrelevant"  __areDataOrMappingsChanged returned true | false
\*   "hook"                     _onDataOrMappingChanged of the property's mapping returned
\*   "threw"                    _onDataOrMappingChanged of the property's mapping threw
\*   "finally"                  a change:finally listener read a field list
Ev(op, prop, target) == [op |-> op, prop |-> prop, target |-> target]

\* changeset.propertyNames
NamesOf(cs) == [i \in 1..Len(cs) |-> cs[i].prop]

RECURSIVE AreChangedFrom(_, _, _)
\* The while loop of __areDataOrMappingsChanged, i being the index about to be read.
AreChangedFrom(T, propNames, i) ==
  IF i > Len(propNames) THEN FALSE
  ELSE IF propNames[i] = "data" THEN TRUE
  ELSE IF IsVisualRole(Get(T, propNames[i])) THEN TRUE
  ELSE AreChangedFrom(T, propNames, i + 1)

\* __areDataOrMappingsChanged returning false from within the loop: it reads
\* the first name only.
AreDataOrMappingsChangedFirstOnly(T, propNames) ==
  /\ propNames # <<>>
  /\ (propNames[1] = "data" \/ IsVisualRole(Get(T, propNames[1])))

\* __areDataOrMappingsChanged(modelType)
AreDataOrMappingsChanged(T, propNames) == AreChangedFrom(T, propNames, 1)

\* A base commit that raises at the first rejected write, the writes before
\* it being kept.
BaseCommitPartial(vals, cs) ==
  LET bad == {i \in 1..Len(cs) : cs[i].rejected}
      first == IF bad = {} THEN Len(cs) + 1 ELSE CHOOSE i \in bad : \A k \in bad : i <= k
      written == {i \in 1..Len(cs) : i < first}
  IN [ok |-> bad = {},
      values |-> [p \in DOMAIN vals |->
                    IF \E i \in written : cs[i].prop = p
                    THEN cs[CHOOSE i \in written : cs[i].prop = p].value
                    ELSE vals[p]],
      log |-> [i \in {k \in 1..Len(cs) : k <= first} |->
                 Ev(IF i < first THEN "write" ELSE "rejected", cs[i].prop, <<>>)]]

\* ComplexChangeset._apply, the base commit: a changeset holding a write the
\* property graph rejects raises and writes nothing; otherwise every staged
\* value is written, in the order of the changeset.
BaseCommit(vals, cs) ==
  LET bad == {i \in 1..Len(cs) : cs[i].rejected} IN
  IF bad # {}
  THEN LET first == CHOOSE i \in bad : \A k \in bad : i <= k IN
       [ok |-> FALSE, values |-> vals, log |-> <<Ev("rejected", cs[first].prop, <<>>)>>]
  ELSE [ok |-> TRUE,
        values |-> [p \in DOMAIN vals |->
                      IF \E i \in 1..Len(cs) : cs[i].prop = p
                      THEN cs[CHOOSE i \in 1..Len(cs) : cs[i].prop = p].value
                      ELSE vals[p]],
        log |-> [i \in 1..Len(cs) |-> Ev("write", cs[i].prop, <<>>)]]

\* _onDataOrMappingsChanged catching what a hook throws and going on.
OnDataOrMappingsChangedSwallow(T, vals, throwers) ==
  LET calls == EachVisualRole(T, {}) IN
  [i \in 1..Len(calls) |->
     LET n == calls[i].propType.name IN
     Ev(IF n \in throwers THEN "threw" ELSE "hook", n, vals[n])]

\* _onDataOrMappingsChanged reading the mapping of the first visual role
\* before the iteration: it throws on a type that declares none.
OnDataOrMappingsChangedFromFirstRole(T, vals, throwers) ==
  LET calls == EachVisualRole(T, throwers) IN
  IF RoleNames(T) = {} THEN <<Ev("threw", "", <<>>)>>
  ELSE [i \in 1..Len(calls) |->
          LET n == calls[i].propType.name IN
          Ev(IF n \in throwers THEN "threw" ELSE "hook", n, vals[n])]

\* model._onDataOrMappingsChanged(): this.get(propType)._onDataOrMappingChanged()
\* for each visual role; a hook that throws ends the iteration.
OnDataOrMappingsChanged(T, vals, throwers) ==
  LET calls == EachVisualRole(T, throwers) IN
  [i \in 1..Len(calls) |->
     LET n == calls[i].propType.name IN
     Ev(IF n \in throwers THEN "threw" ELSE "hook", n, vals[n])]

\* _apply testing and cascading before this.base(model).
ApplyChangesetCascadeFirst(T, vals, cs, throwers) ==
  LET base == BaseCommit(vals, cs)
      relevant == AreDataOrMappingsChanged(T, NamesOf(cs))
      cascade == IF relevant THEN OnDataOrMappingsChanged(T, vals, throwers) ELSE <<>>
      before == <<Ev(IF relevant THEN "relevant" ELSE "irrelevant", "", <<>>)>> \o cascade
  IN IF \E i \in 1..Len(cascade) : cascade[i].op = "threw"
     THEN [values |-> vals, log |-> before]
     ELSE [values |-> base.values, log |-> before \o base.log]

\* _apply cascading without the test of __areDataOrMappingsChanged.
ApplyChangesetAlwaysCascade(T, vals, cs, throwers) ==
  LET base == BaseCommit(vals, cs) IN
  IF ~base.ok THEN [values |-> base.values, log |-> base.log]
  ELSE LET relevant == AreDataOrMappingsChanged(T, NamesOf(cs)) IN
       [values |-> base.values,
        log |-> base.log
                \o <<Ev(IF relevant THEN "relevant" ELSE "irrelevant", "", <<>>)>>
                \o OnDataOrMappingsChanged(T, base.values, throwers)]

\* _apply testing and cascading in a finally block around this.base(model).
ApplyChangesetCascadeInFinally(T, vals, cs, throwers) ==
  LET base == BaseCommit(vals, cs)
      relevant == AreDataOrMappingsChanged(T, NamesOf(cs))
  IN [values |-> base.values,
      log |-> base.log
              \o <<Ev(IF relevant THEN "relevant" ELSE "irrelevant", "", <<>>)>>
              \o (IF relevant THEN OnDataOrMappingsChanged(T, base.values, throwers)
                  ELSE <<>>)]

\* _apply cascading on the mappings the model held before this.base(model).
ApplyChangesetCascadeReplaced(T, vals, cs, throwers) ==
  LET base == BaseCommit(vals, cs) IN
  IF ~base.ok THEN [values |-> base.values, log |-> base.log]
  ELSE LET relevant == AreDataOrMappingsChanged(T, NamesOf(cs)) IN
       [values |-> base.values,
        log |-> base.log
                \o <<Ev(IF relevant THEN "relevant" ELSE "irrelevant", "", <<>>)>>
                \o (IF relevant THEN OnDataOrMappingsChanged(T, vals, throwers)
                    ELSE <<>>)]

\* _apply cascading once for each changed name that is data or a visual role.
ApplyChangesetCascadePerName(T, vals, cs, throwers) ==
  LET base == BaseCommit(vals, cs) IN
  IF ~base.ok THEN [values |-> base.values, log |-> base.log]
  ELSE LET names == NamesOf(cs)
           Hit(name) == AreDataOrMappingsChanged(T, <<name>>)
           hits == SelectSeq(names, Hit)
           cascade == OnDataOrMappingsChanged(T, base.values, throwers)
       IN
       [values |-> base.values,
        log |-> base.log
                \o <<Ev(IF hits # <<>> THEN "relevant" ELSE "irrelevant", "", <<>>)>>
                \o [i \in 1..(Len(hits) * Len(cascade)) |-> cascade[((i - 1) % Len(cascade)) + 1]]]

\* AbstractModelChangeset._apply(model): the values and the log it leaves.
ApplyChangeset(T, vals, cs, throwers) ==
  LET base == BaseCommit(vals, cs) IN
  IF ~base.ok THEN [values |-> base.values, log |-> base.log]
  ELSE LET relevant == AreDataOrMappingsChanged(T, NamesOf(cs)) IN
       [values |-> base.values,
        log |-> base.log
                \o <<Ev(IF relevant THEN "relevant" ELSE "irrelevant", "", <<>>)>>
                \o (IF relevant THEN OnDataOrMappingsChanged(T, base.values, throwers)
                    ELSE <<>>)]

\* The commit ended with an error, which its caller gets.
Raised(l) == \E i \in 1..Len(l) : l[i].op \in {"rejected", "threw"}

----------------------------------------------------------------------------
(* The derived field lists *)

RECURSIVE KeyEachFieldUnshift(_, _, _)
\* fields.each of keyFieldNames adding a new name at the front of the array.
KeyEachFieldUnshift(keyFields, fields, i) ==
  IF i > Len(fields) THEN keyFields
  ELSE LET name == fields[i] IN
       IF name \notin keyFields.set
       THEN KeyEachFieldUnshift([list |-> <<name>> \o keyFields.list,
                                 set |-> keyFields.set \cup {name}], fields, i + 1)
       ELSE KeyEachFieldUnshift(keyFields, fields, i + 1)

RECURSIVE KeyEachField(_, _, _)
\* fields.each of keyFieldNames from the i-th field on.
KeyEachField(keyFields, fields, i) ==
  IF i > Len(fields) THEN keyFields
  ELSE LET name == fields[i] IN
       IF name \notin keyFields.set
       THEN KeyEachField([list |-> Append(keyFields.list, name),
                          set |-> keyFields.set \cup {name}], fields, i + 1)
       ELSE KeyEachField(keyFields, fields, i + 1)

\* The eachVisualRole callback of keyFieldNames returning false after the
\* first key role.
KeyEachRoleFirstKeyOnly(calls, vals, k, keyFields) ==
  LET keyCalls == {i \in k..Len(calls) : calls[i].propType.isVisualKey} IN
  IF keyCalls = {} THEN keyFields
  ELSE LET first == CHOOSE i \in keyCalls : \A j \in keyCalls : i <= j IN
       KeyEachField(keyFields, vals[calls[first].propType.name], 1)

RECURSIVE KeyEachRole(_, _, _, _)
\* The eachVisualRole callback of keyFieldNames from the k-th call on.
KeyEachRole(calls, vals, k, keyFields) ==
  IF k > Len(calls) THEN keyFields
  ELSE LET propType == calls[k].propType IN
       IF propType.isVisualKey
       THEN KeyEachRole(calls, vals, k + 1, KeyEachField(keyFields, vals[propType.name], 1))
       ELSE KeyEachRole(calls, vals, k + 1, keyFields)

\* get keyFieldNames without the test of visualKeyType.
KeyFieldNamesUngated(T, vals) ==
  KeyEachRole(EachVisualRole(T, {}), vals, 1, [list |-> <<>>, set |-> {}])

\* get keyFieldNames: the array and its set.
KeyFieldNames(T, vals) ==
  IF T.visualKeyType = dataKey
  THEN KeyEachRole(EachVisualRole(T, {}), vals, 1, [list |-> <<>>, set |-> {}])
  ELSE [list |-> <<>>, set |-> {}]

RECURSIVE MeasureEachFieldNoKeyTest(_, _, _, _)
\* fields.each of measureFieldNames without the test of keyFieldSet.
MeasureEachFieldNoKeyTest(measureFields, keyFieldSet, fields, i) ==
  IF i > Len(fields) THEN measureFields
  ELSE LET name == fields[i] IN
       IF name \notin measureFields.set
       THEN MeasureEachFieldNoKeyTest([list |-> Append(measureFields.list, name),
                                       set |-> measureFields.set \cup {name}],
                                      keyFieldSet, fields, i + 1)
       ELSE MeasureEachFieldNoKeyTest(measureFields, keyFieldSet, fields, i + 1)

RECURSIVE MeasureEachField(_, _, _, _)
\* fields.each of measureFieldNames from the i-th field on.
MeasureEachField(measureFields, keyFieldSet, fields, i) ==
  IF i > Len(fields) THEN measureFields
  ELSE LET name == fields[i] IN
       IF name \notin keyFieldSet /\ name \notin measureFields.set
       THEN MeasureEachField([list |-> Append(measureFields.list, name),
                              set |-> measureFields.set \cup {name}],
                             keyFieldSet, fields, i + 1)
       ELSE MeasureEachField(measureFields, keyFieldSet, fields, i + 1)

RECURSIVE MeasureEachRole(_, _, _, _, _)
\* The eachVisualRole callback of measureFieldNames from the k-th call on.
MeasureEachRole(calls, vals, k, keyFieldSet, measureFields) ==
  IF k > Len(calls) THEN measureFields
  ELSE LET propType == calls[k].propType IN
       IF ~propType.isVisualKey
       THEN MeasureEachRole(calls, vals, k + 1, keyFieldSet,
                            MeasureEachField(measureFields, keyFieldSet, vals[propType.name], 1))
       ELSE MeasureEachRole(calls, vals, k + 1, keyFieldSet, measureFields)

\* get measureFieldNames taking the key set from the last read of keyFieldNames
\* instead of reading this.keyFieldNames.
MeasureFieldNamesKeysAsRead(T, vals) ==
  LET keyReads == {i \in 1..Len(reads) : reads[i].getter = "keyFieldNames"}
      keyFieldSet ==
        IF keyReads = {} THEN {}
        ELSE LET last == reads[CHOOSE i \in keyReads : \A k \in keyReads : k <= i].result
             IN {last[i] : i \in 1..Len(last)}
  IN
  IF T.visualKeyType = dataKey
  THEN MeasureEachRole(EachVisualRole(T, {}), vals, 1, keyFieldSet, [list |-> <<>>, set |-> {}])
  ELSE [list |-> <<>>, set |-> {}]

\* get measureFieldNames: the array and its set.
MeasureFieldNames(T, vals) ==
  LET keyFieldSet == KeyFieldNames(T, vals).set IN
  IF T.visualKeyType = dataKey
  THEN MeasureEachRole(EachVisualRole(T, {}), vals, 1, keyFieldSet, [list |-> <<>>, set |-> {}])
  ELSE [list |-> <<>>, set |-> {}]

\* The change:finally listeners run: each reads the two field lists of the model.
OnChangeFinally(T, vals) ==
  <<Ev("finally", "keyFieldNames", KeyFieldNames(T, vals).list),
    Ev("finally", "measureFieldNames", MeasureFieldNames(T, vals).list)>>

----------------------------------------------------------------------------
(* The data property *)

NullValue == [kind |-> "null"]
UndefinedValue == [kind |-> "undefined"]

\* new PentahoObject(table): a simple value wrapping the table.
PentahoObject(table) == [kind |-> "simple", value |-> table]

\* The column lists of a table: field names, none twice.
ColumnLists == {q \in SeqsUpTo(FieldNames, MaxFields) : \A i, j \in 1..Len(q) : q[i] = q[j] => i = j}

\* The plain tables: some columns and a number of rows.
PlainTables == {[kind |-> "plain", cols |-> c, rows |-> n] : c \in ColumnLists, n \in 0..MaxRows}

\* The views of a plain table: some of its columns, by index and in any order,
\* and its first rows.
ViewsOf(source) ==
  {[kind |-> "view", source |-> source, cols |-> c, rows |-> n] :
     c \in {q \in SeqsUpTo(1..Len(source.cols), Len(source.cols)) :
              \A i, j \in 1..Len(q) : q[i] = q[j] => i = j},
     n \in 0..source.rows}

Tables == PlainTables \cup UNION {ViewsOf(source) : source \in PlainTables}

\* What a caller can give for data.
ValueSpecs == {NullValue, UndefinedValue} \cup Tables \cup {PentahoObject(t) : t \in Tables}

\* table.toPlainTable(): a plain table is its own plain form, a view gives a
\* plain table of the columns and the rows it shows.
ToPlainTable(table) ==
  IF table.kind = "plain" THEN table
  ELSE [kind |-> "plain",
        cols |-> [i \in 1..Len(table.cols) |-> table.source.cols[table.cols[i]]],
        rows |-> table.rows]

\* The toValueOn of the property type the data property extends: nothing
\* given is null, a simple value is itself, any other object is wrapped.
BaseToValueOn(valueSpec) ==
  IF valueSpec.kind \in {"null", "undefined"} THEN NullValue
  ELSE IF valueSpec.kind = "simple" THEN valueSpec
  ELSE PentahoObject(valueSpec)

\* toValueOn returning what this.base returned.
ToValueOnBaseOnly(valueSpec) == BaseToValueOn(valueSpec)

\* toValueOn of the data property.
ToValueOn(valueSpec) ==
  LET simpleTable == BaseToValueOn(valueSpec) IN
  IF simpleTable # NullValue
  THEN LET table == ToPlainTable(simpleTable.value) IN PentahoObject(table)
  ELSE simpleTable

DataIdle == [valueSpec |-> UndefinedValue, value |-> NullValue]

----------------------------------------------------------------------------
(* Serialization *)

\* The properties toSpecInContext omits by default.
OmitNames == {"data", "selectionFilter", "application"}

\* What a caller can have in keyArgs.omitProps[name]; "undefined" is also a
\* name the object does not hold.
JsFlags == {"undefined", "null", "true", "false"}

NoFlags == [n \in OmitNames |-> "undefined"]

\* The keyArgs a caller can pass: nothing, or an object with isJson and
\* omitProps, omitProps being nothing, null or an object of flags.
KeyArgsOf(isJson, omitKind, omitProps) ==
  [kind |-> "object", isJson |-> isJson, omitKind |-> omitKind, omitProps |-> omitProps]

NoKeyArgs == [kind |-> "undefined", isJson |-> "undefined", omitKind |-> "undefined",
              omitProps |-> NoFlags]

AllKeyArgs ==
  {NoKeyArgs}
    \cup {KeyArgsOf(j, k, NoFlags) : j \in {"undefined", "false", "true"}, k \in {"undefined", "null"}}
    \cup {KeyArgsOf(j, "object", o) : j \in {"undefined", "false", "true"}, o \in [OmitNames -> JsFlags]}

\* keyArgs.omitProps[name] as the caller gave it.
CallerFlag(keyArgs, name) ==
  IF keyArgs.omitKind = "object" THEN keyArgs.omitProps[name] ELSE "undefined"

\* omitProps[name] of an object created by Object.create(proto): its own value,
\* or else the value of proto.
Lookup(own, proto, name) == IF own[name] # "undefined" THEN own[name] ELSE proto[name]

\* if(omitProps[name] == null) omitProps[name] = true, on the derived object.
DefaultTrue(own, proto, name) ==
  IF Lookup(own, proto, name) \in {"undefined", "null"}
  THEN [own EXCEPT ![name] = "true"]
  ELSE own

\* What this.base(keyArgs) receives: the caller's object itself, or an object
\* derived from it whose omitProps is derived from the caller's omitProps.
Passed(sameObject, keyArgs, omitOwn, omitProto) ==
  [sameObject |-> sameObject, keyArgs |-> keyArgs, omitOwn |-> omitOwn, omitProto |-> omitProto]

\* if(!omitProps[name]) omitProps[name] = true
DefaultTrueUnlessTruthy(own, proto, name) ==
  IF Lookup(own, proto, name) # "true" THEN [own EXCEPT ![name] = "true"] ELSE own

\* toSpecInContext testing the flags for falsy instead of == null.
ToSpecInContextOverridesFalse(keyArgs) ==
  IF keyArgs.kind = "object" /\ keyArgs.isJson = "true"
  THEN LET proto == IF keyArgs.omitKind = "object" THEN keyArgs.omitProps ELSE NoFlags
           own1 == DefaultTrueUnlessTruthy(NoFlags, proto, "data")
           own2 == DefaultTrueUnlessTruthy(own1, proto, "selectionFilter")
           own3 == DefaultTrueUnlessTruthy(own2, proto, "application")
       IN [caller |-> keyArgs, passed |-> Passed(FALSE, keyArgs, own3, proto)]
  ELSE [caller |-> keyArgs, passed |-> Passed(TRUE, keyArgs, NoFlags, NoFlags)]

\* toSpecInContext testing keyArgs alone, not keyArgs.isJson.
ToSpecInContextAnyMode(keyArgs) ==
  IF keyArgs.kind = "object"
  THEN LET proto == IF keyArgs.omitKind = "object" THEN keyArgs.omitProps ELSE NoFlags
           own1 == DefaultTrue(NoFlags, proto, "data")
           own2 == DefaultTrue(own1, proto, "selectionFilter")
           own3 == DefaultTrue(own2, proto, "application")
       IN [caller |-> keyArgs, passed |-> Passed(FALSE, keyArgs, own3, proto)]
  ELSE [caller |-> keyArgs, passed |-> Passed(TRUE, keyArgs, NoFlags, NoFlags)]

\* toSpecInContext writing the defaults into keyArgs.omitProps itself, created
\* on keyArgs when missing, without Object.create.
ToSpecInContextInPlace(keyArgs) ==
  IF keyArgs.kind = "object" /\ keyArgs.isJson = "true"
  THEN LET given == IF keyArgs.omitKind = "object" THEN keyArgs.omitProps ELSE NoFlags
           own1 == DefaultTrue(given, NoFlags, "data")
           own2 == DefaultTrue(own1, NoFlags, "selectionFilter")
           own3 == DefaultTrue(own2, NoFlags, "application")
           written == [keyArgs EXCEPT !.omitKind = "object", !.omitProps = own3]
       IN [caller |-> written, passed |-> Passed(TRUE, written, NoFlags, NoFlags)]
  ELSE [caller |-> keyArgs, passed |-> Passed(TRUE, keyArgs, NoFlags, NoFlags)]

\* toSpecInContext(keyArgs): the caller's keyArgs after the call and what
\* this.base receives.
ToSpecInContext(keyArgs) ==
  IF keyArgs.kind = "object" /\ keyArgs.isJson = "true"
  THEN LET proto == IF keyArgs.omitKind = "object" THEN keyArgs.omitProps ELSE NoFlags
           own1 == DefaultTrue(NoFlags, proto, "data")
           own2 == DefaultTrue(own1, proto, "selectionFilter")
           own3 == DefaultTrue(own2, proto, "application")
       IN [caller |-> keyArgs, passed |-> Passed(FALSE, keyArgs, own3, proto)]
  ELSE [caller |-> keyArgs, passed |-> Passed(TRUE, keyArgs, NoFlags, NoFlags)]

\* keyArgs.omitProps[name] as the base serializer reads it.
EffectiveOmit(passed, name) ==
  IF passed.sameObject THEN CallerFlag(passed.keyArgs, name)
  ELSE Lookup(passed.omitOwn, passed.omitProto, name)

ToSpecIdle == [keyArgs |-> NoKeyArgs, passed |-> Passed(TRUE, NoKeyArgs, NoFlags, NoFlags), calls |-> 0]

\* model.toSpecInContext(keyArgs)
CallToSpecInContext ==
  /\ toSpec.calls < MaxCalls
  /\ LET out == ToSpecInContext(toSpec.keyArgs) IN
     toSpec' = [keyArgs |-> out.caller, passed |-> out.passed, calls |-> toSpec.calls + 1]
  /\ UNCHANGED <<model, each, counts, reads, dataProp>>

EachIdle == [stops |-> {}, calls |-> <<>>, done |-> FALSE]

\* modelType.eachVisualRole(f), f returning false on the roles in each.stops.
CallEachVisualRole ==
  /\ ~each.done
  /\ each' = [stops |-> each.stops, calls |-> EachVisualRole(modelType, each.stops), done |-> TRUE]
  /\ UNCHANGED <<model, toSpec, counts, reads, dataProp>>

CountsIdle == [commits |-> 0, relevant |-> 0, hooks |-> <<>>]

\* No caller of the other methods.
AuxIdle ==
  /\ toSpec = ToSpecIdle
  /\ each = EachIdle
  /\ counts = CountsIdle
  /\ reads = <<>>
  /\ dataProp = DataIdle

----------------------------------------------------------------------------
(* The model and its transactions *)

\* The field lists a mapping can hold: names may repeat.
Mappings == SeqsUpTo(FieldNames, MaxFields)

\* The mappings staged in a transaction of several properties.
StagedMappings == {<<>>, <<"a">>}

\* The values of the properties that are no visual role.
PlainValues(propName) ==
  IF propName = "application" THEN {Null, "app"}
  ELSE IF propName = "data" THEN {Null, "table"}
  ELSE {"or", "and"}

\* The values of a model created from an empty specification.
InitialValues(T) ==
  [p \in PropNames(T) |->
     IF IsVisualRole(Get(T, p)) THEN <<>>
     ELSE IF p = "selectionFilter" THEN "or"
     ELSE Null]

\* A model of one of the types, created from an empty specification.
NewModel(types) ==
  /\ modelType \in types
  /\ values = InitialValues(modelType)
  /\ staged = <<>>
  /\ propertyNames = <<>>
  /\ log = <<>>
  /\ pc = "idle"

InitOf(types) ==
  /\ NewModel(types)
  /\ AuxIdle

\* model._createChangeset(txn): a transaction starts changing the model.
CreateChangeset ==
  /\ pc \in {"idle", "finished", "raised"}
  /\ pc' = "open"
  /\ staged' = <<>>
  /\ propertyNames' = <<>>
  /\ log' = <<>>
  /\ UNCHANGED <<modelType, values, aux>>

\* A property is set within the open transaction: the change is staged.
Stage ==
  /\ pc = "open"
  /\ Len(staged) < MaxStaged
  /\ \E p \in PropNames(modelType) \ {staged[i].prop : i \in 1..Len(staged)} :
       \E v \in (IF IsVisualRole(Get(modelType, p)) THEN StagedMappings ELSE PlainValues(p)) :
         \E rejected \in BOOLEAN :
           /\ v # values[p]
           /\ staged' = Append(staged, [prop |-> p, value |-> v, rejected |-> rejected])
  /\ UNCHANGED <<modelType, values, propertyNames, log, pc, aux>>

\* The transaction commits: changeset._apply(model).
Apply ==
  /\ pc = "open"
  /\ \E throwers \in SUBSET RoleNames(modelType) :
       LET out == ApplyChangeset(modelType, values, staged, throwers) IN
       /\ values' = out.values
       /\ log' = out.log
       /\ pc' = IF Raised(out.log) THEN "raised" ELSE "applied"
  /\ propertyNames' = NamesOf(staged)
  /\ staged' = <<>>
  /\ UNCHANGED <<modelType, aux>>

\* The change:finally listeners run and read the field lists.
Finally ==
  /\ pc = "applied"
  /\ log' = log \o OnChangeFinally(modelType, values)
  /\ pc' = "finished"
  /\ UNCHANGED <<modelType, values, staged, propertyNames, aux>>

\* model.set(name, mapping) outside a transaction: a transaction of one change
\* that the property graph accepts, committed at once, no hook throwing.
Set ==
  /\ pc \in {"idle", "finished"}
  /\ \E p \in RoleNames(modelType) :
       \E v \in Mappings \ {values[p]} :
       \E cs \in {<<[prop |-> p, value |-> v, rejected |-> FALSE]>>} :
       \E out \in {ApplyChangeset(modelType, values, cs, {})} :
         /\ values' = out.values
         /\ propertyNames' = NamesOf(cs)
         /\ log' = out.log \o OnChangeFinally(modelType, out.values)
  /\ pc' = "finished"
  /\ reads' = <<>>
  /\ UNCHANGED <<modelType, staged, toSpec, each, counts, dataProp>>

\* A caller reads model.keyFieldNames.
ReadKeyFieldNames ==
  /\ Len(reads) < MaxReads
  /\ reads' = Append(reads, [getter |-> "keyFieldNames",
                             result |-> KeyFieldNames(modelType, values).list])
  /\ UNCHANGED <<model, toSpec, each, counts, dataProp>>

\* A caller reads model.measureFieldNames.
ReadMeasureFieldNames ==
  /\ Len(reads) < MaxReads
  /\ reads' = Append(reads, [getter |-> "measureFieldNames",
                             result |-> MeasureFieldNames(modelType, values).list])
  /\ UNCHANGED <<model, toSpec, each, counts, dataProp>>

\* model.data = valueSpec outside a transaction: the value is converted by
\* toValueOn and the change of data committed at once.
SetData ==
  /\ pc \in {"idle", "finished"}
  /\ \E valueSpec \in ValueSpecs :
       LET value == ToValueOn(valueSpec)
           cs == <<[prop |-> "data",
                    value |-> IF value = NullValue THEN Null ELSE "table",
                    rejected |-> FALSE]>>
           out == ApplyChangeset(modelType, values, cs, {})
       IN
       /\ value # dataProp.value
       /\ dataProp' = [valueSpec |-> valueSpec, value |-> value]
       /\ values' = out.values
       /\ propertyNames' = NamesOf(cs)
       /\ log' = out.log \o OnChangeFinally(modelType, out.values)
  /\ pc' = "finished"
  /\ UNCHANGED <<modelType, staged, toSpec, each, counts, reads>>

\* Transactions of several changes on a model.
TxnTypes == {AbstractModelType, ChartType(dataKey)}

Init == InitOf(TxnTypes)

Next == CreateChangeset \/ Stage \/ Apply \/ Finally

Spec == Init /\ [][Next]_vars

\* Single changes on models of every visual key type.
ViewTypes == {ChartType(dataKey), ChartType(dataOrdinal), ChartType(undefined)}

InitViews == InitOf(ViewTypes)

NextViews == Set

SpecViews == InitViews /\ [][NextViews]_vars

\* Calls of toSpecInContext with every keyArgs.
InitToSpec ==
  /\ NewModel({AbstractModelType})
  /\ \E keyArgs \in AllKeyArgs : toSpec = [ToSpecIdle EXCEPT !.keyArgs = keyArgs]
  /\ each = EachIdle
  /\ counts = CountsIdle
  /\ reads = <<>>
  /\ dataProp = DataIdle

NextToSpec == CallToSpecInContext

SpecToSpec == InitToSpec /\ [][NextToSpec]_vars

\* The properties a model type can declare after those of AbstractModel.
DeclaredProps ==
  {RoleProp("measures", FALSE), PaletteProp("palette"), RoleProp("rows", TRUE),
   RoleProp("columns", TRUE)}

\* Model types declaring some of the properties, in every order.
EachTypes ==
  {[props |-> BaseProps \o q, visualKeyType |-> dataKey] :
     q \in {r \in SeqsUpTo(DeclaredProps, Cardinality(DeclaredProps)) :
              \A i, j \in 1..Len(r) : r[i] = r[j] => i = j}}

\* Calls of eachVisualRole with every f, by what f returns on each role.
InitEach ==
  /\ NewModel(EachTypes)
  /\ toSpec = ToSpecIdle
  /\ \E stops \in SUBSET RoleNames(modelType) : each = [EachIdle EXCEPT !.stops = stops]
  /\ counts = CountsIdle
  /\ reads = <<>>
  /\ dataProp = DataIdle

NextEach == CallEachVisualRole

SpecEach == InitEach /\ [][NextEach]_vars

\* The value of a property that a change replaces v with.
OtherValue(T, p, v) ==
  CHOOSE w \in (IF IsVisualRole(Get(T, p)) THEN StagedMappings ELSE PlainValues(p)) : w # v

\* The changeset of a transaction that changes the properties named, in
\* declaration order, the property graph rejecting the writes of those in bad.
Changes(T, vals, names, bad) ==
  LET Changed(propType) == propType.name \in names
      changed == SelectSeq(T.props, Changed)
  IN [k \in 1..Len(changed) |->
        [prop |-> changed[k].name,
         value |-> OtherValue(T, changed[k].name, vals[changed[k].name]),
         rejected |-> changed[k].name \in bad]]

\* A transaction on the model from _createChangeset to its end: a fresh
\* changeset, some properties changed in declaration order, the commit, and
\* the change:finally listeners unless the commit raised. No hook throws.
Commit ==
  /\ pc \in {"idle", "finished", "raised"}
  /\ counts.commits < MaxCommits
  /\ \E names \in {s \in SUBSET PropNames(modelType) : s # {} /\ Cardinality(s) <= MaxStaged} :
       \E bad \in SUBSET names :
       \E cs \in {Changes(modelType, values, names, bad)} :
       \E out \in {ApplyChangeset(modelType, values, cs, {})} :
         LET relevant == bad = {} /\ names \cap ({"data"} \cup RoleNames(modelType)) # {} IN
         /\ values' = out.values
         /\ propertyNames' = NamesOf(cs)
         /\ log' = out.log \o (IF Raised(out.log) THEN <<>>
                                ELSE OnChangeFinally(modelType, out.values))
         /\ pc' = IF Raised(out.log) THEN "raised" ELSE "finished"
         /\ counts' =
              [commits |-> counts.commits + 1,
               relevant |-> counts.relevant + (IF relevant THEN 1 ELSE 0),
               hooks |-> [r \in DOMAIN counts.hooks |->
                            counts.hooks[r]
                            + Cardinality({i \in 1..Len(out.log) :
                                             out.log[i].op = "hook" /\ out.log[i].prop = r})]]
  /\ UNCHANGED <<modelType, staged, toSpec, each, reads, dataProp>>

\* Sequences of commits on one model, counting the hook calls of each role.
InitCount ==
  /\ NewModel(TxnTypes)
  /\ toSpec = ToSpecIdle
  /\ each = EachIdle
  /\ counts = [CountsIdle EXCEPT !.hooks = [r \in RoleNames(modelType) |-> 0]]
  /\ reads = <<>>
  /\ dataProp = DataIdle

NextCount == Commit

SpecCount == InitCount /\ [][NextCount]_vars

\* Model types of a measure role and a key role.
ReadTypes ==
  {[props |-> BaseProps \o SubSeq(ChartRoles, 1, 2), visualKeyType |-> vkt] :
     vkt \in {dataKey, dataOrdinal}}

\* Reads of the field lists between single changes of the model.
InitRead == InitOf(ReadTypes)

NextRead == Set \/ ReadKeyFieldNames \/ ReadMeasureFieldNames

SpecRead == InitRead /\ [][NextRead]_vars

\* Changes of the data of a model.
InitData == InitOf({AbstractModelType})

NextData == SetData

SpecData == InitData /\ [][NextData]_vars

----------------------------------------------------------------------------
(* Properties of a commit *)

Range(q) == {q[i] : i \in 1..Len(q)}

At(ops) == {i \in 1..Len(log) : log[i].op \in ops}

Writes == At({"write"})
Tests == At({"relevant", "irrelevant"})
HookCalls == At({"hook", "threw"})
Listeners == At({"finally"})

\* The names of the visual role properties, in declaration order.
DeclaredRoles(T) ==
  LET roles == SelectSeq(T.props, IsVisualRole) IN [i \in 1..Len(roles) |-> roles[i].name]

\* The properties of the log entries at the indexes I, in the order of the log.
PropsAt(I) ==
  [k \in 1..Cardinality(I) |-> log[CHOOSE i \in I : Cardinality({j \in I : j <= i}) = k].prop]

\* C1: within a commit every staged write is applied before the relevance
\* test, every call of a mapping's _onDataOrMappingChanged comes after all the
\* writes and the test and before every change:finally listener, and a
\* listener of a relevant commit runs only once every declared visual role
\* mapping has been notified.
C1_WritesThenCascadeThenListeners ==
  /\ Tests # {} =>
       /\ Writes = 1..Len(propertyNames)
       /\ \A i \in Writes : log[i].prop = propertyNames[i]
       /\ Tests = {Len(propertyNames) + 1}
  /\ \A h \in HookCalls : \A i \in Writes \cup Tests : i < h
  /\ \A f \in Listeners : \A i \in Writes \cup Tests \cup HookCalls : i < f
  /\ (Listeners # {} /\ At({"relevant"}) # {}) =>
       \A n \in RoleNames(modelType) : \E h \in At({"hook"}) : log[h].prop = n

C1_Witness ==
  /\ pc = "finished"
  /\ Len(propertyNames) = 2
  /\ At({"relevant"}) # {}
  /\ Cardinality(At({"hook"})) = 3

\* C2: __areDataOrMappingsChanged returns true exactly when the changed names
\* hold "data" or the name of a visual role property: false for no name and
\* for names of other properties only, whatever the order of the names.
C2_RelevantIffDataOrRole ==
  Tests # {} =>
    (At({"relevant"}) # {} <=>
       \E n \in Range(propertyNames) : n = "data" \/ n \in RoleNames(modelType))

C2_Witness ==
  /\ propertyNames = <<"selectionFilter", "rows">>
  /\ At({"relevant"}) # {}

\* C3: a relevant commit no hook of which throws calls _onDataOrMappingChanged
\* once for each declared visual role, in declaration order, changed or not.
C3_EveryRoleNotifiedInOrder ==
  (At({"relevant"}) # {} /\ ~Raised(log)) =>
    PropsAt(HookCalls) = DeclaredRoles(modelType)

C3_Witness ==
  /\ propertyNames = <<"data">>
  /\ PropsAt(At({"hook"})) = <<"measures", "rows", "columns">>

\* C4: a commit that changes neither "data" nor a visual role property calls
\* no _onDataOrMappingChanged.
C4_NoCascadeWhenIrrelevant ==
  (pc \in {"applied", "finished", "raised"}
     /\ Range(propertyNames) \cap ({"data"} \cup RoleNames(modelType)) = {}) =>
    HookCalls = {}

C4_Witness ==
  /\ pc = "applied"
  /\ propertyNames = <<"selectionFilter", "application">>
  /\ RoleNames(modelType) # {}
  /\ Writes = {1, 2}

\* C5: when the base commit raises, the relevance test is not evaluated, no
\* _onDataOrMappingChanged is called and the caller of apply gets the error.
C5_RejectedCommitSkipsCascade ==
  At({"rejected"}) # {} =>
    /\ pc = "raised"
    /\ Tests = {}
    /\ HookCalls = {}
    /\ Listeners = {}

C5_Witness ==
  /\ pc = "raised"
  /\ propertyNames = <<"data", "rows">>
  /\ At({"rejected"}) # {}

\* C6: a commit a write of which is rejected leaves every property value, and
\* so keyFieldNames and measureFieldNames, as before the transaction, and
\* calls no _onDataOrMappingChanged.
C6_RejectedCommitChangesNothing ==
  [][(\E i \in 1..Len(log') : log'[i].op = "rejected") =>
       /\ values' = values
       /\ KeyFieldNames(modelType', values').list = KeyFieldNames(modelType, values).list
       /\ MeasureFieldNames(modelType', values').list = MeasureFieldNames(modelType, values).list
       /\ \A i \in 1..Len(log') : log'[i].op \notin {"hook", "threw"}]_vars

C6_Witness ==
  /\ pc = "raised"
  /\ propertyNames = <<"rows", "data">>
  /\ log = <<Ev("rejected", "data", <<>>)>>

\* The visual roles declared before the visual role n, in declaration order.
DeclaredBefore(T, n) ==
  LET roles == DeclaredRoles(T) IN
  SubSeq(roles, 1, (CHOOSE k \in 1..Len(roles) : roles[k] = n) - 1)

\* C7: when a mapping's _onDataOrMappingChanged throws, the caller of apply
\* gets the error, no visual role declared after it is notified, and each one
\* declared before it has been notified once.
C7_ThrowingHookEndsCascade ==
  \A t \in At({"threw"}) :
    /\ pc = "raised"
    /\ t = Len(log)
    /\ PropsAt(At({"hook"})) = DeclaredBefore(modelType, log[t].prop)

C7_Witness ==
  /\ pc = "raised"
  /\ log # <<>>
  /\ log[Len(log)].op = "threw"
  /\ log[Len(log)].prop = "rows"
  /\ PropsAt(At({"hook"})) = <<"measures">>

----------------------------------------------------------------------------
(* Properties of the derived field lists *)

NoRepeat(q) == \A i, j \in 1..Len(q) : i # j => q[i] # q[j]

IsKeyRole(propType) == IsVisualRole(propType) /\ propType.isVisualKey

IsMeasureRole(propType) == IsVisualRole(propType) /\ ~propType.isVisualKey

RECURSIVE FieldsOf(_, _, _)
\* The field names of the mappings of the roles from the k-th on, one mapping
\* after the other.
FieldsOf(roles, vals, k) ==
  IF k > Len(roles) THEN <<>> ELSE vals[roles[k].name] \o FieldsOf(roles, vals, k + 1)

\* q without the entries that repeat an earlier one.
FirstOccurrences(q) ==
  LET I == {i \in 1..Len(q) : \A j \in 1..Len(q) : j < i => q[j] # q[i]} IN
  [k \in 1..Cardinality(I) |-> q[CHOOSE i \in I : Cardinality({j \in I : j <= i}) = k]]

ReferenceKeys(T, vals) == FirstOccurrences(FieldsOf(SelectSeq(T.props, IsKeyRole), vals, 1))

ReferenceMeasures(T, vals) ==
  LET NoKey(n) == n \notin Range(ReferenceKeys(T, vals)) IN
  FirstOccurrences(SelectSeq(FieldsOf(SelectSeq(T.props, IsMeasureRole), vals, 1), NoKey))

\* C8: no field name occurs twice in keyFieldNames, none twice in
\* measureFieldNames, none in both, and no field a key role maps is in
\* measureFieldNames.
C8_FieldListsDisjointNoRepeat ==
  LET key == KeyFieldNames(modelType, values).list
      measure == MeasureFieldNames(modelType, values).list
  IN /\ NoRepeat(key)
     /\ NoRepeat(measure)
     /\ Range(key) \cap Range(measure) = {}
     /\ Range(measure) \cap Range(FieldsOf(SelectSeq(modelType.props, IsKeyRole), values, 1)) = {}

C8_Witness ==
  /\ modelType.visualKeyType = dataKey
  /\ values.measures = <<"a", "b">>
  /\ values.rows = <<"a", "a">>
  /\ KeyFieldNames(modelType, values).list = <<"a">>
  /\ MeasureFieldNames(modelType, values).list = <<"b">>

\* C9: with visualKeyType dataKey, keyFieldNames is the first occurrences of
\* the field names of the key roles' committed mappings, role by role in
\* declaration order, and measureFieldNames the same of the other roles less
\* the key names; a change:finally listener reads these lists.
C9_FieldListsInFirstSeenOrder ==
  modelType.visualKeyType = dataKey =>
    /\ KeyFieldNames(modelType, values).list = ReferenceKeys(modelType, values)
    /\ MeasureFieldNames(modelType, values).list = ReferenceMeasures(modelType, values)
    /\ \A f \in Listeners :
         log[f].target = IF log[f].prop = "keyFieldNames"
                         THEN ReferenceKeys(modelType, values)
                         ELSE ReferenceMeasures(modelType, values)

C9_Witness ==
  /\ modelType.visualKeyType = dataKey
  /\ values.rows = <<"b">>
  /\ values.columns = <<"a", "b">>
  /\ \E f \in Listeners : log[f] = Ev("finally", "keyFieldNames", <<"b", "a">>)

\* C10: with a visualKeyType other than dataKey both field lists are empty.
C10_NoFieldListsWithoutDataKey ==
  modelType.visualKeyType # dataKey =>
    /\ KeyFieldNames(modelType, values).list = <<>>
    /\ MeasureFieldNames(modelType, values).list = <<>>
    /\ \A f \in Listeners : log[f].target = <<>>

C10_Witness ==
  /\ modelType.visualKeyType = undefined
  /\ values.rows = <<"a", "b">>
  /\ values.measures = <<"b">>
  /\ Listeners # {}

\* C19: with visualKeyType dataKey the two field lists partition the mapped
\* fields: the names in keyFieldNames are exactly the fields the key roles
\* map, the names in measureFieldNames exactly the fields the other roles
\* map less the key names, and every field some role maps is in exactly one
\* of the two lists.
C19_FieldListsPartitionMappedFields ==
  modelType.visualKeyType = dataKey =>
    LET key == Range(KeyFieldNames(modelType, values).list)
        measure == Range(MeasureFieldNames(modelType, values).list)
        keyMapped == Range(FieldsOf(SelectSeq(modelType.props, IsKeyRole), values, 1))
        measureMapped == Range(FieldsOf(SelectSeq(modelType.props, IsMeasureRole), values, 1))
        mapped == UNION {Range(values[r]) : r \in RoleNames(modelType)}
    IN
    /\ key = keyMapped
    /\ measure = measureMapped \ key
    /\ mapped = keyMapped \cup measureMapped
    /\ \A name \in mapped : (name \in key) # (name \in measure)

\* A field mapped by a measure role and by the second key role, another by
\* the measure role alone.
C19_Witness ==
  /\ modelType.visualKeyType = dataKey
  /\ values.measures = <<"a", "b">>
  /\ values.rows = <<>>
  /\ values.columns = <<"b">>
  /\ KeyFieldNames(modelType, values).list = <<"b">>
  /\ MeasureFieldNames(modelType, values).list = <<"a">>

----------------------------------------------------------------------------
(* Properties of toSpecInContext *)

\* The call was made in JSON mode.
JsonMode == toSpec.keyArgs.kind = "object" /\ toSpec.keyArgs.isJson = "true"

\* C11: in JSON mode the omit flag the base serializer reads for data,
\* selectionFilter and application is true when the caller left it undefined
\* or null and is the caller's value otherwise, false included, each name by
\* itself.
C11_JsonModeDefaultsUnsetFlags ==
  (toSpec.calls > 0 /\ JsonMode) =>
    \A n \in OmitNames :
      EffectiveOmit(toSpec.passed, n) =
        IF CallerFlag(toSpec.keyArgs, n) \in {"undefined", "null"}
        THEN "true"
        ELSE CallerFlag(toSpec.keyArgs, n)

C11_Witness ==
  /\ toSpec.calls > 0
  /\ JsonMode
  /\ CallerFlag(toSpec.keyArgs, "data") = "false"
  /\ CallerFlag(toSpec.keyArgs, "selectionFilter") = "null"
  /\ EffectiveOmit(toSpec.passed, "data") = "false"
  /\ EffectiveOmit(toSpec.passed, "selectionFilter") = "true"
  /\ EffectiveOmit(toSpec.passed, "application") = "true"

\* C12: out of JSON mode this.base receives the caller's keyArgs itself, so the
\* omit flags are the caller's.
C12_OtherModesPassKeyArgsOn ==
  (toSpec.calls > 0 /\ ~JsonMode) =>
    /\ toSpec.passed.sameObject
    /\ toSpec.passed.keyArgs = toSpec.keyArgs
    /\ \A n \in OmitNames : EffectiveOmit(toSpec.passed, n) = CallerFlag(toSpec.keyArgs, n)

C12_Witness ==
  /\ toSpec.calls > 0
  /\ toSpec.keyArgs.kind = "object"
  /\ toSpec.keyArgs.isJson = "false"
  /\ toSpec.keyArgs.omitKind = "object"
  /\ \A n \in OmitNames : EffectiveOmit(toSpec.passed, n) = "undefined"

\* C18: toSpecInContext changes neither the keyArgs object of its caller nor
\* that object's omitProps: after the call both hold what they held before,
\* the defaults being written to objects derived from them, and a second
\* call with the same keyArgs gives the base serializer the same omit flags.
C18_KeyArgsLeftAsGiven ==
  [][toSpec'.calls > toSpec.calls =>
       /\ toSpec'.keyArgs = toSpec.keyArgs
       /\ toSpec.calls > 0 =>
            \A name \in OmitNames :
              EffectiveOmit(toSpec'.passed, name) = EffectiveOmit(toSpec.passed, name)]_vars

\* Two calls in JSON mode with an omitProps that sets one flag only.
C18_Witness ==
  /\ toSpec.calls = 2
  /\ JsonMode
  /\ toSpec.keyArgs.omitKind = "object"
  /\ toSpec.keyArgs.omitProps = [NoFlags EXCEPT !["data"] = "false"]
  /\ EffectiveOmit(toSpec.passed, "data") = "false"
  /\ EffectiveOmit(toSpec.passed, "application") = "true"

----------------------------------------------------------------------------
(* Properties of eachVisualRole *)

\* The number of roles f is called on: through the first it answers false on.
CallsExpected(roles, stops) ==
  IF \E k \in 1..Len(roles) : roles[k] \in stops
  THEN CHOOSE k \in 1..Len(roles) :
         roles[k] \in stops /\ \A h \in 1..(k - 1) : roles[h] \notin stops
  ELSE Len(roles)

\* C13: eachVisualRole calls f on the visual role properties only, in the
\* order the type declares them, with the indexes 0, 1, 2, ... counted over
\* the roles alone (a property that is no role uses no index), and a call
\* answering false is the last one.
C13_RolesInOrderWithRoleIndexes ==
  each.done =>
    LET roles == DeclaredRoles(modelType)
        n == CallsExpected(roles, each.stops)
    IN
    /\ Len(each.calls) = n
    /\ \A k \in 1..n :
         /\ IsVisualRole(each.calls[k].propType)
         /\ each.calls[k].propType.name = roles[k]
         /\ each.calls[k].index = k - 1

\* f stops the iteration on the second role, declared after a palette.
C13_Witness ==
  /\ each.done
  /\ each.stops = {"rows"}
  /\ modelType.props =
       BaseProps \o <<RoleProp("measures", FALSE), PaletteProp("palette"),
                      RoleProp("rows", TRUE), RoleProp("columns", TRUE)>>
  /\ each.calls = <<[propType |-> RoleProp("measures", FALSE), index |-> 0],
                    [propType |-> RoleProp("rows", TRUE), index |-> 1]>>

\* C15: the cascade of a commit calls _onDataOrMappingChanged on the mapping
\* each visual role holds after the writes: when the commit replaced the
\* value of a role, the call goes to the new mapping and the replaced one
\* gets no call from that commit.
C15_HookOnNewMapping ==
  [][(pc = "open" /\ pc' # "open") =>
       \A i \in 1..Len(log') :
         log'[i].op \in {"hook", "threw"} =>
           /\ log'[i].target = values'[log'[i].prop]
           /\ log'[i].prop \in Range(propertyNames') => log'[i].target # values[log'[i].prop]]_vars

\* A commit replaced the empty mapping of rows and the cascade called the hook
\* of the new one.
C15_Witness ==
  /\ pc = "applied"
  /\ "rows" \in Range(propertyNames)
  /\ \E i \in HookCalls : log[i] = Ev("hook", "rows", <<"a">>)

\* C20: on a model whose type declares no visual role only data makes a
\* commit relevant, and an accepted commit that changes data ends without an
\* error and without any hook call, after which the change:finally listeners
\* can run and, once run, have run after the relevance test.
C20_RelevantCommitWithoutRoles ==
  (RoleNames(modelType) = {} /\ pc \in {"applied", "finished", "raised"}) =>
    /\ HookCalls = {}
    /\ At({"relevant"}) # {} => "data" \in Range(propertyNames)
    /\ ("data" \in Range(propertyNames) /\ At({"rejected"}) = {}) =>
         /\ At({"relevant"}) # {}
         /\ pc # "raised"
         /\ pc = "applied" => ENABLED Finally
         /\ pc = "finished" =>
              /\ Listeners # {}
              /\ \A f \in Listeners : \A t \in Tests : t < f

\* The listeners ran after a commit that changed data, on a type with no role.
C20_Witness ==
  /\ RoleNames(modelType) = {}
  /\ pc = "finished"
  /\ "data" \in Range(propertyNames)
  /\ At({"relevant"}) # {}
  /\ HookCalls = {}
  /\ Listeners # {}

----------------------------------------------------------------------------
(* Properties of sequences of commits *)

\* C14: over a sequence of commits on one model, each with a fresh changeset
\* and no hook throwing, every declared visual role has got as many calls of
\* _onDataOrMappingChanged as there were commits that changed data or a
\* visual role and whose base commit succeeded: none for an irrelevant or a
\* rejected commit, exactly one for a relevant one.
C14_HookCallsCountRelevantCommits ==
  \A r \in RoleNames(modelType) :
    /\ r \in DOMAIN counts.hooks
    /\ counts.hooks[r] = counts.relevant

\* An irrelevant commit after a relevant one that changed two roles.
C14_Witness ==
  /\ counts.commits = 2
  /\ counts.relevant = 1
  /\ RoleNames(modelType) # {}
  /\ \E i \in 1..Len(log) : log[i].op = "irrelevant"
  /\ values.rows = <<"a">> /\ values.columns = <<"a">>

----------------------------------------------------------------------------
(* Properties of reading the field lists *)

\* C16: reading keyFieldNames or measureFieldNames changes no property value
\* of the model and calls no hook, the read returns what every earlier read of
\* the same getter returned since the last commit, and measureFieldNames
\* leaves out the key fields whether keyFieldNames was read before it or not.
C16_ReadsArePureAndRepeatable ==
  [][Len(reads') > Len(reads) =>
       LET read == reads'[Len(reads')] IN
       /\ model' = model
       /\ \A i \in 1..Len(reads) : reads[i].getter = read.getter => reads[i].result = read.result
       /\ read.getter = "measureFieldNames" =>
            read.result = IF modelType.visualKeyType = dataKey
                          THEN ReferenceMeasures(modelType, values)
                          ELSE <<>>]_vars

\* measureFieldNames read before and after keyFieldNames, a field of the
\* measure role being a key field.
C16_Witness ==
  /\ modelType.visualKeyType = dataKey
  /\ values.measures = <<"a", "b">>
  /\ values.rows = <<"a">>
  /\ reads = <<[getter |-> "measureFieldNames", result |-> <<"b">>],
               [getter |-> "keyFieldNames", result |-> <<"a">>],
               [getter |-> "measureFieldNames", result |-> <<"b">>]>>

----------------------------------------------------------------------------
(* Properties of the data property *)

\* C17: the data value the model stores is null exactly when the base
\* conversion of what was given is null, and otherwise a simple value
\* wrapping the plain table form of the table given; converting the stored
\* value again gives an equal value.
C17_DataIsNullOrPlainTable ==
  LET base == BaseToValueOn(dataProp.valueSpec) IN
  /\ base = NullValue <=> dataProp.value = NullValue
  /\ dataProp.value # NullValue =>
       /\ dataProp.value.kind = "simple"
       /\ dataProp.value.value.kind = "plain"
       /\ dataProp.value.value = ToPlainTable(base.value)
  /\ ToValueOn(dataProp.value) = dataProp.value
  /\ values.data = Null <=> dataProp.value = NullValue

\* A wrapped view of the second column of a table was given for data.
C17_Witness ==
  /\ dataProp.valueSpec.kind = "simple"
  /\ dataProp.valueSpec.value.kind = "view"
  /\ dataProp.valueSpec.value.source.cols = <<"a", "b">>
  /\ dataProp.valueSpec.value.cols = <<2>>
  /\ dataProp.value = PentahoObject([kind |-> "plain", cols |-> <<"b">>, rows |-> 1])

====
